---- MODULE Spec2Model ----
(***************************************************************************)
(* vinylseekjs: the want-list price aggregator.                            *)
(*                                                                         *)
(* The module models the server (the Discogs path, the Bandcamp path, the  *)
(* retrying fetcher, the rate-budgeted batch fetcher and the merge & rank  *)
(* functions) as state machines over the process-wide accumulators.        *)
(*                                                                         *)
(*   SpecRetry  fetchWithRetry alone, one attempt per step                 *)
(*   SpecRank   sortByPrice / removeDuplicates / trimResults on every      *)
(*              bounded content of listingData                             *)
(*   SpecBatch  one run of fetchMarketplaceListingData, its requests       *)
(*              counted                                                    *)
(*   SpecBatchLive  the same run under fair scheduling                     *)
(*   SpecRun    one invocation of main, the progress channel observed      *)
(*   SpecProgress   the same on longer want lists                          *)
(*   SpecDiscogs    discogsTasks of one invocation on its own              *)
(*   Spec       the server: invocations of main over the shared            *)
(*              accumulators                                               *)
(***************************************************************************)
EXTENDS Integers, Sequences, FiniteSets, TLC

VARIABLES
    \* ---- process-wide accumulators (module-level `let`s) ----
    releaseIDs,        \* sequence of release identifiers
    marketplaceIDs,    \* sequence of listing identifiers
    listingData,       \* sequence of listings
    wantList,          \* null, undefined or the array of wants
    uniqueListings,    \* sequence of listings
    filteredListings,  \* sequence of listings
    \* ---- the process environment ----
    envOK,             \* DGS_USERNAME and TIMER_LIMIT are both set
    \* ---- one entry per invocation of main (POST /fetch-listings) ----
    mPc,               \* "idle" | "tasks" | "returned"
    discogsSuccess,
    bandcampSuccess,
    result,            \* what main resolved with
    dPc,               \* position of discogsTasks
    ci,                \* loop variable of collectMarketplaceIDs
    fi,                \* cursor i of fetchMarketplaceListingData
    batchSize,         \* batchSize of the current wave
    inflight,          \* positions of marketplaceIDs whose batch fetch is pending
    bPc,               \* position of bandcampTasks
    albums,            \* wishlist items whose detail fetch is pending
    \* ---- observation of one run of fetchMarketplaceListingData ----
    remainingSeen,     \* X-Discogs-Ratelimit-Remaining of the wave's probe
    probeCalls,        \* HTTP requests made by the current wave's probe
    batchCalls,        \* HTTP requests made by the current wave's batch
    launched,          \* batch fetches launched by the current wave
    fetchCount,        \* position -> number of batch fetches issued for it
    itemOutcome,       \* position -> what the remote did with its batch fetch
    probeFailed,       \* the remote failed every request of the last probe
    sawZeroBudget,     \* some probe of the run reported a remaining budget of 0
    \* ---- observation of one invocation of main ----
    events,            \* the messages passed to sse.send, in order
    completedSteps,    \* completedSteps of main
    pages,             \* the sale pages fetched so far: [ok, n] per release
    \* ---- merge & rank functions called on their own ----
    calls,             \* the merge & rank functions called so far, in order
    \* ---- one call of fetchWithRetry ----
    remote,            \* what the remote answers to the 1st, 2nd, ... request
    retries,           \* the `retries` argument
    attempt,           \* the loop variable
    requests,          \* number of fetch(url) calls issued so far
    rState,            \* "loop" | "delay" | "returned" | "thrown" | "undefined"
    rError             \* the error the call rejected with, "none" if it did not

accVars   == <<listingData, uniqueListings, filteredListings>>
idVars    == <<releaseIDs, marketplaceIDs, wantList>>
mainVars  == <<envOK, mPc, discogsSuccess, bandcampSuccess, result>>
dVars     == <<dPc, ci, fi, batchSize, inflight>>
bVars     == <<bPc, albums>>
batchObs  == <<remainingSeen, probeCalls, batchCalls, launched, fetchCount, itemOutcome>>
runObs    == <<events, completedSteps, pages>>
obsVars   == <<batchObs, probeFailed, sawZeroBudget, runObs>>
pipeVars  == <<idVars, mainVars, dVars, bVars>>
rankVars  == <<accVars, calls>>
retryVars == <<remote, retries, attempt, requests, rState, rError>>
vars      == <<accVars, pipeVars, obsVars, calls, retryVars>>

-----------------------------------------------------------------------------
(* Bounds *)

MaxRetries == 4        \* largest `retries` argument tried
MaxLen     == 5        \* longest listingData drawn for the merge & rank functions
MaxPrice   == 2        \* prices are 1..MaxPrice
MaxInv     == 2        \* invocations of main (POST /fetch-listings)
MaxWants   == 1        \* longest want list the remote returns
MaxPerPage == 2        \* most listings on one release's sale page
MaxAlbums  == 1        \* longest Bandcamp wishlist
MaxIDs     == 3        \* longest marketplaceIDs of a batch fetcher run on its own
MaxCollected == 2      \* longest marketplaceIDs the pipeline is let to collect
MaxListings == 2       \* longest listingData the pipeline is let to build
MaxRemaining == 2      \* small rate budgets are 0..MaxRemaining
MaxReleases == 2       \* longest want list of SpecProgress and SpecDiscogs

(* Program constants *)

DefaultRetries == 3    \* fetchWithRetry's default `retries`
TopN           == 3    \* trimResults keeps slice(0, 3)
maxBatchSize   == 60   \* fetchMarketplaceListingData's maxBatchSize
totalSteps     == 5    \* main's totalSteps

Min(a, b) == IF a < b THEN a ELSE b

-----------------------------------------------------------------------------
(* fetchWithRetry *)

\* What one fetch(url) can do: a 2xx response, a response with another
\* status (response.ok false), or a rejected promise (transport error).
Outcomes == {"ok", "http_error", "network_error"}

\* All behaviours of the remote over the requests one call can make.
RemoteBehaviours == [1..(MaxRetries + 1) -> Outcomes]

\* for (let attempt = 0; attempt < retries; attempt++)
LoopContinues(a, n) == a < n

\* if (attempt < retries - 1)  -- wait and retry, else rethrow
AttemptsRemainOffByOne(a, n) == a < n
AttemptsRemain(a, n) == a < n - 1

\* The answer to the request that is about to be issued.
Answer == remote[requests + 1]

RetryInit ==
    /\ remote \in RemoteBehaviours
    /\ retries \in 0..MaxRetries
    /\ attempt = 0
    /\ requests = 0
    /\ rState = "loop"
    /\ rError = "none"

\* The loop test fails: the function falls off its end and resolves undefined.
RetryLoopExit ==
    /\ rState = "loop"
    /\ ~LoopContinues(attempt, retries)
    /\ rState' = "undefined"
    /\ UNCHANGED <<remote, retries, attempt, requests, rError>>

\* One iteration: await fetch(url, options); return on response.ok, else the
\* catch block either schedules the delay or rethrows.
RetryAttempt ==
    /\ rState = "loop"
    /\ LoopContinues(attempt, retries)
    /\ requests' = requests + 1
    /\ IF Answer = "ok"
         THEN rState' = "returned" /\ rError' = rError
         ELSE IF AttemptsRemain(attempt, retries)
                THEN rState' = "delay" /\ rError' = rError
                ELSE rState' = "thrown" /\ rError' = Answer
    /\ UNCHANGED <<remote, retries, attempt>>

\* await new Promise(res => setTimeout(res, delay)); then attempt++
RetryDelay ==
    /\ rState = "delay"
    /\ rState' = "loop"
    /\ attempt' = attempt + 1
    /\ UNCHANGED <<remote, retries, requests, rError>>

RetryNext ==
    \/ RetryLoopExit /\ UNCHANGED <<rankVars, pipeVars, obsVars>>
    \/ RetryAttempt /\ UNCHANGED <<rankVars, pipeVars, obsVars>>
    \/ RetryDelay /\ UNCHANGED <<rankVars, pipeVars, obsVars>>

-----------------------------------------------------------------------------
(* Merge & rank: sortByPrice, removeDuplicates, trimResults *)

\* A listing is a record with a name and a price (the fields the merge & rank
\* functions read); names are 1, 2, ... and prices 1..MaxPrice.
Prices == 1..MaxPrice

\* The number of different names in a list whose names are 1..k.
NamesUsed(s) == Cardinality({s[k].name : k \in 1..Len(s)})

\* (a, b) => a.price - b.price  > 0: b goes before a
ComparePrice(a, b) == a.price - b.price

\* Array.prototype.sort is stable: an element is inserted after every element
\* that does not compare greater than it.
RECURSIVE InsertSorted(_, _)
InsertSorted(s, x) ==
    IF s = <<>> THEN <<x>>
    ELSE IF ComparePrice(s[Len(s)], x) > 0
           THEN Append(InsertSorted(SubSeq(s, 1, Len(s) - 1), x), s[Len(s)])
           ELSE Append(s, x)

RECURSIVE SortFrom(_, _, _)
SortFrom(done, s, k) ==
    IF k > Len(s) THEN done ELSE SortFrom(InsertSorted(done, s[k]), s, k + 1)

\* listingData.sort((a, b) => a.price - b.price)
sortByPriceUnsorted(l) == l
sortByPrice(l) == SortFrom(<<>>, l, 1)

\* accumulator.find(item => item.name === current.name): index of the first
\* entry with that name, 0 when there is none.
FindIndex(acc, name) ==
    IF \E k \in 1..Len(acc) : acc[k].name = name
      THEN CHOOSE k \in 1..Len(acc) :
             /\ acc[k].name = name
             /\ \A j \in 1..(k - 1) : acc[j].name # name
      ELSE 0

\* One step of the reduce callback.
ReduceStepFirstWins(acc, current) ==
    IF FindIndex(acc, current.name) # 0 THEN acc ELSE Append(acc, current)
ReduceStep(acc, current) ==
    LET index == FindIndex(acc, current.name)
    IN  IF index # 0
          THEN IF current.price < acc[index].price
                 THEN [acc EXCEPT ![index] = current]
                 ELSE acc
          ELSE Append(acc, current)

RECURSIVE Reduce(_, _, _)
Reduce(acc, l, k) ==
    IF k > Len(l) THEN acc ELSE Reduce(ReduceStep(acc, l[k]), l, k + 1)

\* uniqueListings = listingData.reduce(..., [])
removeDuplicatesKeepsAll(l) == l
removeDuplicates(l) == Reduce(<<>>, l, 1)

\* uniqueListings.slice(0, 3)
trimResults(u) == SubSeq(u, 1, Min(TopN, Len(u)))

RankInit ==
    /\ listingData = <<>>
    /\ uniqueListings = <<>>
    /\ filteredListings = <<>>
    /\ calls = <<>>

\* listingData.push({ name, price, ... }): the accumulator is built one
\* listing at a time, in arrival order.  Names are only ever compared with
\* ===, so the lists are built up to a renaming of the names: a new name is
\* the next unused number.
PushListing ==
    /\ calls = <<>>
    /\ Len(listingData) < MaxLen
    /\ \E m \in 1..(NamesUsed(listingData) + 1), p \in Prices :
           listingData' = Append(listingData, [name |-> m, price |-> p])
    /\ UNCHANGED <<uniqueListings, filteredListings, calls>>

SortByPrice ==
    /\ calls = <<>>
    /\ listingData' = sortByPrice(listingData)
    /\ calls' = Append(calls, "sortByPrice")
    /\ UNCHANGED <<uniqueListings, filteredListings>>

RemoveDuplicates ==
    /\ calls \in {<<>>, <<"sortByPrice">>}
    /\ uniqueListings' = removeDuplicates(listingData)
    /\ calls' = Append(calls, "removeDuplicates")
    /\ UNCHANGED <<listingData, filteredListings>>

TrimResults ==
    /\ Len(calls) > 0
    /\ calls[Len(calls)] = "removeDuplicates"
    /\ filteredListings' = trimResults(uniqueListings)
    /\ calls' = Append(calls, "trimResults")
    /\ UNCHANGED <<listingData, uniqueListings>>

RankNext ==
    \/ PushListing /\ UNCHANGED <<retryVars, pipeVars, obsVars>>
    \/ SortByPrice /\ UNCHANGED <<retryVars, pipeVars, obsVars>>
    \/ RemoveDuplicates /\ UNCHANGED <<retryVars, pipeVars, obsVars>>
    \/ TrimResults /\ UNCHANGED <<retryVars, pipeVars, obsVars>>

\* The order in which main calls the three functions.
MainOrder == <<"sortByPrice", "removeDuplicates", "trimResults">>

-----------------------------------------------------------------------------
(* fetchWithRetry as a function of the remote's behaviour *)

\* The loop of fetchWithRetry from attempt a on: how the call ends and how
\* many requests it has made by then.
RECURSIVE RetryLoop(_, _, _)
RetryLoop(rb, n, a) ==
    IF ~LoopContinues(a, n) THEN [state |-> "undefined", requests |-> a]
    ELSE IF rb[a + 1] = "ok" THEN [state |-> "returned", requests |-> a + 1]
    ELSE IF AttemptsRemain(a, n) THEN RetryLoop(rb, n, a + 1)
    ELSE [state |-> "thrown", requests |-> a + 1]

\* fetchWithRetry(url): retries = 3
fetchWithRetry(rb) == RetryLoop(rb, DefaultRetries, 0)

\* The remote's behaviours over the requests of one fetchWithRetry(url).
Behaviours == [1..DefaultRetries -> Outcomes]

\* One behaviour per result of fetchWithRetry(url).
CoarseBehaviours ==
    {[k \in 1..DefaultRetries |-> "ok"], [k \in 1..DefaultRetries |-> "network_error"]}

-----------------------------------------------------------------------------
(* The pipeline: main, discogsTasks, bandcampTasks *)

Invs == 1..MaxInv

\* Values of X-Discogs-Ratelimit-Remaining: small budgets and budgets around
\* maxBatchSize.
Remainings == (0..MaxRemaining) \cup {maxBatchSize, maxBatchSize + 1}

\* wantList: null, undefined (a payload without `wants`) or an array.  `by`
\* is the invocation whose fetchWantlist assigned it (0: the initial null),
\* which the program does not store.
Null == [kind |-> "null", wants |-> <<>>, by |-> 0]
Undefined(v) == [kind |-> "undefined", wants |-> <<>>, by |-> v]
Wants(w, v) == [kind |-> "array", wants |-> w, by |-> v]

\* The value main resolves with: undefined or { results, discogsSuccess,
\* bandcampSuccess }; "none" while main has not returned.
NoResult ==
    [kind |-> "none", results |-> <<>>, discogsSuccess |-> TRUE, bandcampSuccess |-> TRUE]
UndefinedResult ==
    [kind |-> "undefined", results |-> <<>>, discogsSuccess |-> TRUE, bandcampSuccess |-> TRUE]
ResultObject(r, d, b) ==
    [kind |-> "object", results |-> r, discogsSuccess |-> d, bandcampSuccess |-> b]

\* Identifiers carry, besides their value, the invocation that collected them
\* (`by`), which the program does not store.
ReleaseID(k, v) == [rel |-> k, by |-> v]
MarketplaceID(r, n, v) == [rel |-> r.rel, n |-> n, by |-> v]

\* The listing the remote holds for a listing identifier: the name is the
\* release's description, the price the listing's.  `src`, `by` (the
\* invocation whose fetch appended it) and `idBy` (the invocation that
\* collected its identifier) are not stored by the program.
DiscogsListing(id, v) ==
    [name |-> id.rel, price |-> id.n, src |-> "discogs", by |-> v, idBy |-> id.by]
BandcampListing(a, p, v) ==
    [name |-> MaxWants + a, price |-> p, src |-> "bandcamp", by |-> v, idBy |-> v]

\* The prices (converted to AUD) the albums are found to have.
AlbumPrices == {1, MaxPrice}

\* Math.min(rateLimitRemaining, maxBatchSize)
BatchSizeUncapped(rem) == rem
BatchSizeNone(rem) == 0
BatchSize(rem) == Min(rem, maxBatchSize)

\* marketplaceIDs.slice(i, i + batchSize), as positions 1..len
BatchPositionsOverlapping(i, bs, len) == {k \in 1..len : i <= k /\ k <= i + bs}
BatchPositions(i, bs, len) == {k \in 1..len : i < k /\ k <= i + bs}

\* i += batchSize
AdvanceCursor(i, bs) == i + bs

\* checkForEnvironmentVariables()
checkForEnvironmentVariablesIgnored == TRUE
checkForEnvironmentVariables == envOK

\* The identifiers one release contributes: those of the n available listings
\* of its sale page, in page order; none when the fetch failed (the catch
\* only logs).
PageIDsIgnoresFailure(r, ok, n, v) == [k \in 1..n |-> MarketplaceID(r, k, v)]
PageIDs(r, ok, n, v) ==
    IF ok THEN [k \in 1..n |-> MarketplaceID(r, k, v)] ELSE <<>>

\* if (i < marketplaceIDs.length): identifiers remain after this wave
MoreRemainAlways(i, total) == TRUE
MoreRemain(i, total) == i < total

\* await Promise.all([discogsTasks(), bandcampTasks()]): both tasks have ended
TasksSettledEither(d, b) == d = "done" \/ b = "done"
TasksSettled(d, b) == d = "done" /\ b = "done"

\* Where discogsTasks goes once collectMarketplaceIDs has handled i releases:
\* the next release, or on into fetchMarketplaceListingData, whose loop test
\* either issues the first probe or ends the function.
AfterRelease(i, rels, ids) ==
    IF i < Len(rels) THEN "collectMarketplaceIDs"
    ELSE IF 0 < Len(ids) THEN "probe" ELSE "done"

\* main(dgsUsername, bandcampUsername) up to its first await: without the
\* environment variables it falls off its end; otherwise both tasks start and
\* each issues its first fetch.
Start(v) ==
    /\ mPc[v] = "idle"
    /\ IF checkForEnvironmentVariables
         THEN /\ mPc' = [mPc EXCEPT ![v] = "tasks"]
              /\ dPc' = [dPc EXCEPT ![v] = "fetchWantlist"]
              /\ bPc' = [bPc EXCEPT ![v] = "wishlist"]
              /\ result' = result
         ELSE /\ mPc' = [mPc EXCEPT ![v] = "returned"]
              /\ result' = [result EXCEPT ![v] = UndefinedResult]
              /\ UNCHANGED <<dPc, bPc>>
    /\ UNCHANGED <<accVars, idVars, envOK, discogsSuccess, bandcampSuccess,
                   ci, fi, batchSize, inflight, albums>>

\* fetchWantlist: the fetch settles.  A rejected fetch or an unparsable body
\* is caught and logged; a payload without `wants` stores undefined.
FetchWantlist(v, out, n) ==
    /\ dPc[v] = "fetchWantlist"
    /\ wantList' = CASE out = "rejected" -> wantList
                     [] out = "no_wants" -> Undefined(v)
                     [] out = "wants"    -> Wants([k \in 1..n |-> ReleaseID(k, v)], v)
    /\ dPc' = [dPc EXCEPT ![v] = "collectReleaseIDs"]
    /\ UNCHANGED <<accVars, releaseIDs, marketplaceIDs, mainVars,
                   ci, fi, batchSize, inflight, bVars>>

\* collectReleaseIDs, then collectMarketplaceIDs up to its first fetch.
\* wantList.length throws on null and undefined: the catch of discogsTasks.
CollectReleaseIDs(v) ==
    /\ dPc[v] = "collectReleaseIDs"
    /\ IF wantList.kind = "array"
         THEN /\ releaseIDs' = releaseIDs \o wantList.wants
              /\ ci' = [ci EXCEPT ![v] = 0]
              /\ fi' = [fi EXCEPT ![v] = 0]
              /\ dPc' = [dPc EXCEPT ![v] = AfterRelease(0, releaseIDs', marketplaceIDs)]
              /\ UNCHANGED discogsSuccess
         ELSE /\ discogsSuccess' = [discogsSuccess EXCEPT ![v] = FALSE]
              /\ dPc' = [dPc EXCEPT ![v] = "done"]
              /\ UNCHANGED <<releaseIDs, ci, fi>>
    /\ UNCHANGED <<accVars, marketplaceIDs, wantList, envOK, mPc, bandcampSuccess,
                   result, batchSize, inflight, bVars>>

\* collectMarketplaceIDs: the sale page of releaseIDs[i] settles; n available
\* listings are appended in page order (none when the fetch failed), then i++.
MarketplacePage(v, ok, n) ==
    /\ dPc[v] = "collectMarketplaceIDs"
    /\ ci[v] < Len(releaseIDs)
    /\ marketplaceIDs' = marketplaceIDs \o PageIDs(releaseIDs[ci[v] + 1], ok, n, v)
    /\ ci' = [ci EXCEPT ![v] = ci[v] + 1]
    /\ fi' = [fi EXCEPT ![v] = 0]
    /\ dPc' = [dPc EXCEPT ![v] = AfterRelease(ci'[v], releaseIDs, marketplaceIDs')]
    /\ UNCHANGED <<accVars, releaseIDs, wantList, mainVars, batchSize, inflight, bVars>>

\* Whether the probe's failure leaves fetchMarketplaceListingData: the probe is
\* awaited outside any try, so what fetchWithRetry throws (and the TypeError of
\* reading the headers of no response) reaches the catch of discogsTasks.
ProbeEscalatesNever(state) == FALSE
ProbeEscalates(state) == state # "returned"

\* fetchMarketplaceListingData: the probe's fetchWithRetry settles.  If it
\* threw, the catch of discogsTasks; else the headers are read and the batch
\* is launched.
Probe(v, rb, rem) ==
    /\ dPc[v] = "probe"
    /\ IF ProbeEscalates(fetchWithRetry(rb).state)
         THEN /\ discogsSuccess' = [discogsSuccess EXCEPT ![v] = FALSE]
              /\ dPc' = [dPc EXCEPT ![v] = "done"]
              /\ UNCHANGED <<batchSize, inflight>>
         ELSE /\ batchSize' = [batchSize EXCEPT ![v] = BatchSize(rem)]
              /\ inflight' = [inflight EXCEPT ![v] =
                     BatchPositions(fi[v], batchSize'[v], Len(marketplaceIDs))]
              /\ dPc' = [dPc EXCEPT ![v] = "batch"]
              /\ UNCHANGED discogsSuccess
    /\ UNCHANGED <<accVars, idVars, envOK, mPc, bandcampSuccess, result, ci, fi, bVars>>

\* What a 2xx listing response can hold.
Payloads == {"listing", "too_quickly", "malformed", "unparsable"}

\* One batch fetch settles: appended when fetchWithRetry returned a payload
\* that parses, is no rate-limit rejection and has the fields read; dropped
\* (caught and logged) otherwise.
ItemAppends(rb, payload) == fetchWithRetry(rb).state = "returned" /\ payload = "listing"

\* Whether the promise of a batch item rejects: never, its .catch only logs.
\* (Were it to reject, Promise.all(batch) would reject at once and the error
\* would reach the catch of discogsTasks.)
ItemRejectsUncaught(rb, payload) ==
    fetchWithRetry(rb).state = "thrown" \/ payload \in {"malformed", "unparsable"}
ItemRejects(rb, payload) == FALSE

ItemSettle(v, k, rb, payload) ==
    /\ k \in inflight[v]
    /\ inflight' = [inflight EXCEPT ![v] = inflight[v] \ {k}]
    /\ listingData' = IF ItemAppends(rb, payload)
                        THEN Append(listingData, DiscogsListing(marketplaceIDs[k], v))
                        ELSE listingData
    /\ IF ItemRejects(rb, payload) /\ dPc[v] = "batch"
         THEN /\ discogsSuccess' = [discogsSuccess EXCEPT ![v] = FALSE]
              /\ dPc' = [dPc EXCEPT ![v] = "done"]
         ELSE UNCHANGED <<discogsSuccess, dPc>>
    /\ UNCHANGED <<uniqueListings, filteredListings, idVars, envOK, mPc,
                   bandcampSuccess, result, ci, fi, batchSize, bVars>>

\* await Promise.all(batch) resolves; i += batchSize; the cooldown starts if
\* identifiers remain, else the loop and the function end.
WaveEnd(v) ==
    /\ dPc[v] = "batch"
    /\ inflight[v] = {}
    /\ fi' = [fi EXCEPT ![v] = AdvanceCursor(fi[v], batchSize[v])]
    /\ dPc' = [dPc EXCEPT ![v] =
           IF MoreRemain(fi'[v], Len(marketplaceIDs)) THEN "cooldown" ELSE "done"]
    /\ UNCHANGED <<accVars, idVars, mainVars, ci, batchSize, inflight, bVars>>

\* await timer(61000) resolves; the loop test holds and the next probe is issued.
Cooldown(v) ==
    /\ dPc[v] = "cooldown"
    /\ dPc' = [dPc EXCEPT ![v] =
           IF fi[v] < Len(marketplaceIDs) THEN "probe" ELSE "done"]
    /\ UNCHANGED <<accVars, idVars, mainVars, ci, fi, batchSize, inflight, bVars>>

\* integrateBandcampData: fetchBandcampWishlist settles.  A rejected fetch
\* throws into the catch of bandcampTasks; else every album's detail fetch is
\* launched.
Wishlist(v, ok, n) ==
    /\ bPc[v] = "wishlist"
    /\ IF ok
         THEN /\ albums' = [albums EXCEPT ![v] = 1..n]
              /\ bPc' = [bPc EXCEPT ![v] = "albums"]
              /\ UNCHANGED bandcampSuccess
         ELSE /\ bandcampSuccess' = [bandcampSuccess EXCEPT ![v] = FALSE]
              /\ bPc' = [bPc EXCEPT ![v] = "done"]
              /\ UNCHANGED albums
    /\ UNCHANGED <<accVars, idVars, envOK, mPc, discogsSuccess, result, dVars>>

\* fetchBandcampAlbumDetails settles: a listing is appended; a sold-out album
\* (null) and a failed fetch are dropped.
AlbumSettle(v, a, out, p) ==
    /\ a \in albums[v]
    /\ albums' = [albums EXCEPT ![v] = albums[v] \ {a}]
    /\ listingData' = IF out = "listing"
                        THEN Append(listingData, BandcampListing(a, p, v))
                        ELSE listingData
    /\ UNCHANGED <<uniqueListings, filteredListings, idVars, mainVars, dVars, bPc>>

\* await Promise.all(fetchPromises) resolves.
BandcampDone(v) ==
    /\ bPc[v] = "albums"
    /\ albums[v] = {}
    /\ bPc' = [bPc EXCEPT ![v] = "done"]
    /\ UNCHANGED <<accVars, idVars, mainVars, dVars, albums>>

\* await Promise.all([discogsTasks(), bandcampTasks()]) resolves: sort,
\* dedupe, trim and return, or return no results when both paths failed.
Combine(v) ==
    /\ mPc[v] = "tasks"
    /\ TasksSettled(dPc[v], bPc[v])
    /\ IF discogsSuccess[v] \/ bandcampSuccess[v]
         THEN /\ listingData' = sortByPrice(listingData)
              /\ uniqueListings' = removeDuplicates(listingData')
              /\ filteredListings' = trimResults(uniqueListings')
              /\ result' = [result EXCEPT ![v] =
                     ResultObject(filteredListings', discogsSuccess[v], bandcampSuccess[v])]
         ELSE /\ result' = [result EXCEPT ![v] =
                     ResultObject(<<>>, discogsSuccess[v], bandcampSuccess[v])]
              /\ UNCHANGED accVars
    /\ mPc' = [mPc EXCEPT ![v] = "returned"]
    \* the locals of the two finished tasks are gone
    /\ ci' = [ci EXCEPT ![v] = 0]
    /\ fi' = [fi EXCEPT ![v] = 0]
    /\ batchSize' = [batchSize EXCEPT ![v] = 0]
    /\ UNCHANGED <<idVars, envOK, discogsSuccess, bandcampSuccess, dPc, inflight, bVars>>

\* let releaseIDs = [], marketplaceIDs = [], listingData = [], wantList = null,
\* filteredListings = [], uniqueListings = []
AccumulatorsInit ==
    /\ releaseIDs = <<>>
    /\ marketplaceIDs = <<>>
    /\ listingData = <<>>
    /\ wantList = Null
    /\ uniqueListings = <<>>
    /\ filteredListings = <<>>

\* No invocation of main has started.
InvocationsInit ==
    /\ mPc = [v \in Invs |-> "idle"]
    /\ discogsSuccess = [v \in Invs |-> TRUE]
    /\ bandcampSuccess = [v \in Invs |-> TRUE]
    /\ result = [v \in Invs |-> NoResult]
    /\ dPc = [v \in Invs |-> "idle"]
    /\ ci = [v \in Invs |-> 0]
    /\ fi = [v \in Invs |-> 0]
    /\ batchSize = [v \in Invs |-> 0]
    /\ inflight = [v \in Invs |-> {}]
    /\ bPc = [v \in Invs |-> "idle"]
    /\ albums = [v \in Invs |-> {}]

ObsIdle ==
    /\ remainingSeen = 0
    /\ probeCalls = 0
    /\ batchCalls = 0
    /\ launched = 0
    /\ fetchCount = <<>>
    /\ itemOutcome = <<>>
    /\ probeFailed = FALSE
    /\ sawZeroBudget = FALSE
    /\ events = <<>>
    /\ completedSteps = 0
    /\ pages = <<>>

Unobserved == UNCHANGED <<obsVars, calls, retryVars>>

\* The requests are explored one at a time, in the order 1, 2, ...: an
\* invocation starts once the invocations before it have returned.  (The server
\* does not serialise them; the accumulators they share are process-wide.)
Next ==
    \/ \E v \in Invs :
           /\ \A w \in 1..(v - 1) : mPc[w] = "returned"
           /\ Start(v) /\ Unobserved
    \/ \E v \in Invs, out \in {"rejected", "no_wants", "wants"}, n \in 0..MaxWants :
           FetchWantlist(v, out, n) /\ Unobserved
    \/ \E v \in Invs : CollectReleaseIDs(v) /\ Unobserved
    \/ \E v \in Invs, ok \in BOOLEAN, n \in 0..MaxPerPage :
           /\ Len(marketplaceIDs) + n <= MaxCollected
           /\ MarketplacePage(v, ok, n) /\ Unobserved
    \/ \E v \in Invs, rb \in CoarseBehaviours, rem \in 0..MaxRemaining :
           Probe(v, rb, rem) /\ Unobserved
    \/ \E v \in Invs, k \in 1..Len(marketplaceIDs), rb \in CoarseBehaviours,
          payload \in Payloads :
           /\ ItemAppends(rb, payload) => Len(listingData) < MaxListings
           /\ ItemSettle(v, k, rb, payload) /\ Unobserved
    \/ \E v \in Invs : WaveEnd(v) /\ Unobserved
    \/ \E v \in Invs : Cooldown(v) /\ Unobserved
    \/ \E v \in Invs, ok \in BOOLEAN, n \in 0..MaxAlbums : Wishlist(v, ok, n) /\ Unobserved
    \/ \E v \in Invs, a \in 1..MaxAlbums, out \in {"listing", "sold_out", "error"},
          p \in AlbumPrices :
           /\ out = "listing" => Len(listingData) < MaxListings
           /\ AlbumSettle(v, a, out, p) /\ Unobserved
    \/ \E v \in Invs : BandcampDone(v) /\ Unobserved
    \/ \E v \in Invs : Combine(v) /\ Unobserved

-----------------------------------------------------------------------------
(* One run of fetchMarketplaceListingData, observed *)

\* fetchMarketplaceListingData is entered with some marketplaceIDs collected;
\* the identifiers are told apart by their position.
BatchInit ==
    /\ releaseIDs = <<>>
    /\ \E n \in 0..MaxIDs :
           /\ marketplaceIDs = [k \in 1..n |-> MarketplaceID(ReleaseID(k, 1), 1, 1)]
           /\ fetchCount = [k \in 1..n |-> 0]
           /\ itemOutcome = [k \in 1..n |-> "pending"]
           /\ dPc = [v \in Invs |-> IF v = 1 THEN AfterRelease(0, <<>>, marketplaceIDs)
                                             ELSE "idle"]
    /\ listingData = <<>>
    /\ wantList = Wants(<<>>, 1)
    /\ uniqueListings = <<>>
    /\ filteredListings = <<>>
    /\ envOK = TRUE
    /\ mPc = [v \in Invs |-> IF v = 1 THEN "tasks" ELSE "idle"]
    /\ discogsSuccess = [v \in Invs |-> TRUE]
    /\ bandcampSuccess = [v \in Invs |-> TRUE]
    /\ result = [v \in Invs |-> NoResult]
    /\ ci = [v \in Invs |-> 0]
    /\ fi = [v \in Invs |-> 0]
    /\ batchSize = [v \in Invs |-> 0]
    /\ inflight = [v \in Invs |-> {}]
    /\ bPc = [v \in Invs |-> "idle"]
    /\ albums = [v \in Invs |-> {}]
    /\ remainingSeen = 0
    /\ probeCalls = 0
    /\ batchCalls = 0
    /\ launched = 0
    /\ probeFailed = FALSE
    /\ sawZeroBudget = FALSE
    /\ events = <<>>
    /\ completedSteps = 0
    /\ pages = <<>>

\* What the remote did, whatever the program made of it: it failed every one
\* of the requests a fetchWithRetry(url) makes, or it answered one of them with
\* 2xx and a well-formed listing.
AllFail(rb) == \A k \in 1..DefaultRetries : rb[k] # "ok"
Served(rb, payload) == ~AllFail(rb) /\ payload = "listing"

\* A wave starts: its probe's requests are counted, and on success the budget
\* read and the batch fetches launched are recorded.
ObservedProbe ==
    \E rb \in Behaviours, rem \in Remainings :
        /\ Probe(1, rb, rem)
        /\ probeCalls' = fetchWithRetry(rb).requests
        /\ batchCalls' = 0
        /\ remainingSeen' = IF dPc'[1] = "batch" THEN rem ELSE remainingSeen
        /\ launched' = IF dPc'[1] = "batch" THEN Cardinality(inflight'[1]) ELSE 0
        /\ fetchCount' = [k \in DOMAIN fetchCount |->
               IF dPc'[1] = "batch" /\ k \in inflight'[1]
                 THEN fetchCount[k] + 1 ELSE fetchCount[k]]
        /\ probeFailed' = AllFail(rb)
        /\ sawZeroBudget' = (sawZeroBudget \/ (dPc'[1] = "batch" /\ rem = 0))
        /\ UNCHANGED <<itemOutcome, runObs>>

ObservedItem ==
    \E k \in 1..Len(marketplaceIDs), rb \in Behaviours, payload \in Payloads :
        /\ ItemSettle(1, k, rb, payload)
        /\ batchCalls' = batchCalls + fetchWithRetry(rb).requests
        /\ itemOutcome' = [itemOutcome EXCEPT ![k] =
               IF Served(rb, payload) THEN "served" ELSE "refused"]
        /\ UNCHANGED <<remainingSeen, probeCalls, launched, fetchCount,
                       probeFailed, sawZeroBudget, runObs>>

BatchNext ==
    \/ ObservedProbe /\ UNCHANGED <<calls, retryVars>>
    \/ ObservedItem /\ UNCHANGED <<calls, retryVars>>
    \/ WaveEnd(1) /\ Unobserved
    \/ Cooldown(1) /\ Unobserved

-----------------------------------------------------------------------------
(* One invocation of main, the progress channel observed *)

\* An event is one sse.send(message): a status line, or a line that starts
\* with "Progress: <percent>%".
Status(message) == [kind |-> "status", percent |-> 0, message |-> message]
Progress(percent, message) == [kind |-> "progress", percent |-> percent, message |-> message]

\* Math.round(num / den), num >= 0 and den > 0
Round(num, den) == (2 * num + den) \div (2 * den)

\* updateProgress(stepDescription) with completedSteps already incremented to
\* cs: Math.round((completedSteps / totalSteps) * 100)
updateProgress(cs, stepDescription) ==
    Progress(Round(cs * 100, totalSteps), stepDescription)

\* collectMarketplaceIDs after the release at index i - 1, of len releases:
\* Math.round(((i + 1) / releaseIDs.length) * 20) + 40
MarketplacePercent(i, len) == Round(i * 20, len) + 40

\* discogsTasks from the return of fetchMarketplaceListingData on.
FetchedEvents(cs) == <<updateProgress(cs + 1, "Fetched marketplace data")>>

\* discogsTasks from the return of collectMarketplaceIDs up to the first probe
\* (pc = "probe") or to its end (pc = "done": there is nothing to fetch).
CollectedEvents(pc, cs) ==
    <<updateProgress(cs + 1, "Collected marketplace IDs"),
      Status("Fetching marketplace listing data")>>
    \o (IF pc = "done" THEN FetchedEvents(cs + 1) ELSE <<>>)

\* discogsTasks from the return of fetchWantlist up to the first sale-page
\* fetch (pc = "collectMarketplaceIDs"), through collectReleaseIDs.
WantlistEvents(isArray, pc, cs) ==
    <<updateProgress(cs + 1, "Fetched wantlist"), Status("Collecting release IDs")>>
    \o (IF isArray
          THEN <<Progress(40, "Collected release IDs"),
                 updateProgress(cs + 2, "Collected release IDs"),
                 Status("Collecting marketplace IDs")>>
               \o (IF pc = "collectMarketplaceIDs" THEN <<>>
                   ELSE CollectedEvents(pc, cs + 2))
          ELSE <<>>)

\* main after await Promise.all([discogsTasks(), bandcampTasks()])
CombineEvents(anySuccess, cs) ==
    IF anySuccess
      THEN <<Status("Sorting by price"), updateProgress(cs + 1, "Sorted by price"),
             Status("Removing duplicates"), updateProgress(cs + 2, "Removed duplicates"),
             Status("Trimming results"), updateProgress(cs + 3, "Trimmed results"),
             Status("Done!")>>
      ELSE <<Status("Both APIs failed.")>>

\* The events es are sent; every updateProgress among them counted one step.
Sends(es, steps) ==
    /\ events' = events \o es
    /\ completedSteps' = completedSteps + steps

RunStart ==
    /\ Start(1)
    /\ Sends(IF checkForEnvironmentVariables
               THEN <<Status("Fetching wantlist"), Status("Integrating Bandcamp data")>>
               ELSE <<>>, 0)
    /\ UNCHANGED <<batchObs, probeFailed, sawZeroBudget, pages>>

RunFetchWantlist(longest) ==
    \E out \in {"rejected", "no_wants", "wants"}, n \in 0..longest :
        /\ FetchWantlist(1, out, n)
        /\ Sends(IF out = "rejected" THEN <<>> ELSE <<Progress(20, "Fetched wantlist")>>, 0)
        /\ UNCHANGED <<batchObs, probeFailed, sawZeroBudget, pages>>

RunCollectReleaseIDs ==
    /\ CollectReleaseIDs(1)
    /\ Sends(WantlistEvents(wantList.kind = "array", dPc'[1], completedSteps),
             IF wantList.kind # "array" THEN 1
             ELSE IF dPc'[1] = "collectMarketplaceIDs" THEN 2
             ELSE IF dPc'[1] = "probe" THEN 3 ELSE 4)
    /\ UNCHANGED <<batchObs, probeFailed, sawZeroBudget, pages>>

RunMarketplacePage ==
    \E ok \in BOOLEAN, n \in 0..MaxPerPage :
        /\ Len(marketplaceIDs) + n <= MaxCollected
        /\ MarketplacePage(1, ok, n)
        /\ Sends(<<Progress(MarketplacePercent(ci'[1], Len(releaseIDs)),
                            "Collecting marketplace IDs")>>
                 \o (IF dPc'[1] = "collectMarketplaceIDs" THEN <<>>
                     ELSE CollectedEvents(dPc'[1], completedSteps)),
                 IF dPc'[1] = "collectMarketplaceIDs" THEN 0
                 ELSE IF dPc'[1] = "probe" THEN 1 ELSE 2)
        /\ pages' = Append(pages, [ok |-> ok, n |-> IF ok THEN n ELSE 0])
        /\ UNCHANGED <<batchObs, probeFailed, sawZeroBudget>>

RunProbe ==
    \E rb \in Behaviours, rem \in 0..MaxRemaining :
        /\ Probe(1, rb, rem)
        /\ probeFailed' = AllFail(rb)
        /\ UNCHANGED <<batchObs, sawZeroBudget, runObs>>

RunItem ==
    \E k \in 1..Len(marketplaceIDs), rb \in CoarseBehaviours, payload \in Payloads :
        /\ ItemAppends(rb, payload) => Len(listingData) < MaxListings
        /\ ItemSettle(1, k, rb, payload)
        /\ UNCHANGED obsVars

RunWaveEnd ==
    /\ WaveEnd(1)
    /\ Sends(IF dPc'[1] = "done" THEN FetchedEvents(completedSteps) ELSE <<>>,
             IF dPc'[1] = "done" THEN 1 ELSE 0)
    /\ UNCHANGED <<batchObs, probeFailed, sawZeroBudget, pages>>

RunCooldown ==
    /\ Cooldown(1)
    /\ Sends(IF dPc'[1] = "done" THEN FetchedEvents(completedSteps) ELSE <<>>,
             IF dPc'[1] = "done" THEN 1 ELSE 0)
    /\ UNCHANGED <<batchObs, probeFailed, sawZeroBudget, pages>>

RunWishlist ==
    \E ok \in BOOLEAN, n \in 0..MaxAlbums :
        /\ Wishlist(1, ok, n)
        /\ UNCHANGED obsVars

RunAlbum ==
    \E a \in 1..MaxAlbums, out \in {"listing", "sold_out", "error"}, p \in AlbumPrices :
        /\ out = "listing" => Len(listingData) < MaxListings
        /\ AlbumSettle(1, a, out, p)
        /\ UNCHANGED obsVars

RunBandcampDone ==
    /\ BandcampDone(1)
    /\ Sends(<<updateProgress(completedSteps + 1, "Integrated Bandcamp data")>>, 1)
    /\ UNCHANGED <<batchObs, probeFailed, sawZeroBudget, pages>>

RunCombine ==
    /\ Combine(1)
    /\ Sends(CombineEvents(discogsSuccess[1] \/ bandcampSuccess[1], completedSteps),
             IF discogsSuccess[1] \/ bandcampSuccess[1] THEN 3 ELSE 0)
    /\ UNCHANGED <<batchObs, probeFailed, sawZeroBudget, pages>>

\* The steps of discogsTasks after the want list's fetch.
DiscogsSteps ==
    \/ RunCollectReleaseIDs /\ UNCHANGED <<calls, retryVars>>
    \/ RunMarketplacePage /\ UNCHANGED <<calls, retryVars>>
    \/ RunProbe /\ UNCHANGED <<calls, retryVars>>
    \/ RunItem /\ UNCHANGED <<calls, retryVars>>
    \/ RunWaveEnd /\ UNCHANGED <<calls, retryVars>>
    \/ RunCooldown /\ UNCHANGED <<calls, retryVars>>

\* The steps of main and of bandcampTasks.
MainSteps ==
    \/ RunStart /\ UNCHANGED <<calls, retryVars>>
    \/ RunWishlist /\ UNCHANGED <<calls, retryVars>>
    \/ RunAlbum /\ UNCHANGED <<calls, retryVars>>
    \/ RunBandcampDone /\ UNCHANGED <<calls, retryVars>>
    \/ RunCombine /\ UNCHANGED <<calls, retryVars>>

\* One invocation of main.
RunNext ==
    \/ RunFetchWantlist(MaxWants) /\ UNCHANGED <<calls, retryVars>>
    \/ DiscogsSteps
    \/ MainSteps

\* One invocation of main on longer want lists.
ProgressNext ==
    \/ RunFetchWantlist(MaxReleases) /\ UNCHANGED <<calls, retryVars>>
    \/ DiscogsSteps
    \/ MainSteps

\* discogsTasks of one invocation on its own, entered as main enters it:
\* 'Fetching wantlist' is sent and the want list's fetch is issued.
DiscogsInit ==
    /\ AccumulatorsInit
    /\ envOK = TRUE
    /\ mPc = [v \in Invs |-> IF v = 1 THEN "tasks" ELSE "idle"]
    /\ discogsSuccess = [v \in Invs |-> TRUE]
    /\ bandcampSuccess = [v \in Invs |-> TRUE]
    /\ result = [v \in Invs |-> NoResult]
    /\ dPc = [v \in Invs |-> IF v = 1 THEN "fetchWantlist" ELSE "idle"]
    /\ ci = [v \in Invs |-> 0]
    /\ fi = [v \in Invs |-> 0]
    /\ batchSize = [v \in Invs |-> 0]
    /\ inflight = [v \in Invs |-> {}]
    /\ bPc = [v \in Invs |-> "idle"]
    /\ albums = [v \in Invs |-> {}]
    /\ remainingSeen = 0 /\ probeCalls = 0 /\ batchCalls = 0 /\ launched = 0
    /\ fetchCount = <<>> /\ itemOutcome = <<>>
    /\ probeFailed = FALSE /\ sawZeroBudget = FALSE
    /\ events = <<Status("Fetching wantlist")>>
    /\ completedSteps = 0
    /\ pages = <<>>

DiscogsNext ==
    \/ RunFetchWantlist(MaxReleases) /\ UNCHANGED <<calls, retryVars>>
    \/ DiscogsSteps

-----------------------------------------------------------------------------
(* Claims about fetchWithRetry (SpecRetry) *)

\* C1: with retries >= 1 the attempts are made one after another until the
\* first 2xx answer or until `retries` attempts were made: no request follows
\* a successful one, a call that returns has just received its first 2xx
\* answer (k failures, then success: k + 1 requests), a call that throws has
\* made exactly `retries` requests, all failed (a non-2xx status as much as a
\* transport error), and rejects with the error of the last one; the call
\* never ends any other way.
C1_RetryAttempts ==
    retries >= 1 =>
        /\ requests <= retries
        /\ \A k \in 1..requests :
               remote[k] = "ok" => (k = requests /\ rState = "returned")
        /\ rState = "returned" => (requests >= 1 /\ remote[requests] = "ok")
        /\ rState = "thrown" =>
               /\ requests = retries
               /\ \A k \in 1..retries : remote[k] # "ok"
               /\ rError = remote[retries]
        /\ rState # "undefined"
        /\ rState = "loop" => requests = attempt
        /\ rState = "delay" => requests = attempt + 1

\* The function RetryLoop ends as the stepwise loop does.
RetryLoopAgrees ==
    rState \in {"returned", "thrown", "undefined"} =>
        /\ RetryLoop(remote, retries, 0).state = rState
        /\ RetryLoop(remote, retries, 0).requests = requests

\* A remote that fails twice (once with a status, once in transport) then
\* succeeds, retries = 3: the call has returned after 3 requests.
C1_Witness ==
    /\ retries = DefaultRetries
    /\ remote[1] = "http_error" /\ remote[2] = "network_error" /\ remote[3] = "ok"
    /\ rState = "returned"
    /\ requests = 3

-----------------------------------------------------------------------------
(* Claims about the merge & rank functions (SpecRank) *)

NamesOf(l) == {l[k].name : k \in 1..Len(l)}
EntriesOf(l) == {l[k] : k \in 1..Len(l)}
NoRepeatedName(l) == \A j, k \in 1..Len(l) : l[j].name = l[k].name => j = k
NonDecreasing(l) == \A k \in 1..(Len(l) - 1) : l[k].price <= l[k + 1].price
IsMinPrice(l, n, p) ==
    /\ \E e \in EntriesOf(l) : e.name = n /\ e.price = p
    /\ \A e \in EntriesOf(l) : e.name = n => p <= e.price

\* C2: whatever listingData holds when removeDuplicates is called, its output
\* has no two entries with the same name, has an entry for every name of the
\* input, and every kept entry is an entry of the input whose price is <= the
\* price of every input entry with its name.
C2_DedupeKeepsCheapest ==
    (Len(calls) > 0 /\ calls[Len(calls)] = "removeDuplicates") =>
        /\ NoRepeatedName(uniqueListings)
        /\ NamesOf(uniqueListings) = NamesOf(listingData)
        /\ \A k \in 1..Len(uniqueListings) :
               IsMinPrice(listingData, uniqueListings[k].name, uniqueListings[k].price)

\* Two listings with one name, the dearer one first, on an unsorted list: the
\* cheaper one has replaced it.
C2_Witness ==
    /\ calls = <<"removeDuplicates">>
    /\ Len(listingData) = 2
    /\ listingData[1].name = listingData[2].name
    /\ listingData[1].price = 2 /\ listingData[2].price = 1
    /\ uniqueListings = <<listingData[2]>>

\* C3: after sortByPrice, removeDuplicates and trimResults in main's order,
\* the results have at most 3 entries and are non-decreasing by price.
C3_ResultsShortAndSorted ==
    calls = MainOrder =>
        /\ Len(filteredListings) <= 3
        /\ NonDecreasing(filteredListings)

\* More than 3 different names, and results that really rise in price.
C3_Witness ==
    /\ calls = MainOrder
    /\ Len(uniqueListings) > 3
    /\ Len(filteredListings) = 3
    /\ filteredListings[1].price < filteredListings[3].price

-----------------------------------------------------------------------------
(* Claims about fetchMarketplaceListingData (SpecBatch) *)

C6_BatchSizeCapped ==
    /\ launched <= batchSize[1]
    /\ Cardinality(inflight[1]) <= launched
    /\ batchSize[1] <= remainingSeen
    /\ batchSize[1] <= maxBatchSize

\* A wave under way whose probe read a budget above maxBatchSize.
C6_Witness ==
    /\ dPc[1] = "batch"
    /\ remainingSeen = maxBatchSize + 1
    /\ batchSize[1] = maxBatchSize
    /\ launched = 3

\* C7: the HTTP requests made during a wave after its probe response was read
\* (every attempt of every batch fetch, retries included) are at most the
\* remaining budget that response reported.
C7_WaveCallsWithinBudget == batchCalls <= remainingSeen

\* The listing of the identifier at position k is in listingData.
Appended(k) == DiscogsListing(marketplaceIDs[k], 1) \in EntriesOf(listingData)

\* C15: the failure of a batch item (its fetch failing after the retries, an
\* unparsable or malformed payload) aborts nothing: discogsSuccess turns false
\* only when a probe failed, every item the remote served is appended and
\* every other one is dropped, whatever happened to the items beside it, and
\* unless a probe failed the run ends with every identifier fetched.
C15_ItemFailureIsIsolated ==
    /\ ~discogsSuccess[1] => probeFailed
    /\ \A k \in 1..Len(marketplaceIDs) :
           /\ itemOutcome[k] = "served" => Appended(k)
           /\ itemOutcome[k] # "served" => ~Appended(k)
           /\ (k <= fi[1] + batchSize[1] /\ dPc[1] = "batch" /\ k \notin inflight[1])
                  => itemOutcome[k] # "pending"
    /\ (dPc[1] = "done" /\ ~probeFailed) =>
           /\ discogsSuccess[1]
           /\ \A k \in 1..Len(marketplaceIDs) : itemOutcome[k] # "pending"

\* Three identifiers: the first one's fetch failed, the two after it, one of
\* them in a later wave, were served and appended, and the run completed.
C15_Witness ==
    /\ dPc[1] = "done" /\ discogsSuccess[1]
    /\ itemOutcome = <<"refused", "served", "served">>
    /\ Len(listingData) = 2
    /\ remainingSeen = 2 /\ launched = 1

\* C17: provided every probe succeeds and every fetch settles,
\* fetchMarketplaceListingData eventually ends with its cursor i >= total,
\* whatever budgets >= 0 the server reports (0 included).
Terminated == dPc[1] = "done" /\ fi[1] >= Len(marketplaceIDs)

C17_EventuallyTerminates == <>(probeFailed \/ Terminated)

\* C17, amended: the same, provided the server does not report a budget of 0
\* from some wave on for ever (a wave whose budget is 0 leaves the cursor
\* where it is, and the next wave probes again after the cooldown).
C17_TerminatesUnlessStarved ==
    []<>(remainingSeen > 0) => <>(probeFailed \/ Terminated)

\* Three identifiers fetched to the end although a wave found the budget at 0.
C17_Witness ==
    /\ Terminated
    /\ Len(marketplaceIDs) = 3
    /\ sawZeroBudget
    /\ \A k \in 1..3 : fetchCount[k] = 1

\* C18: the waves run one after another: while a probe is awaited, during the
\* cooldown and at the end no batch fetch is in flight; at most batchSize batch
\* fetches are in flight; a wave is left only with its batch settled, for the
\* cooldown when identifiers remain and for the end when none does (no
\* cooldown after the last wave); and a new probe is issued only out of the
\* cooldown.
C18_WavesAreSequential ==
    /\ [](/\ dPc[1] \in {"probe", "cooldown", "done"} => inflight[1] = {}
          /\ Cardinality(inflight[1]) <= batchSize[1]
          /\ dPc[1] = "cooldown" => fi[1] < Len(marketplaceIDs))
    /\ [][/\ (dPc[1] = "batch" /\ dPc'[1] # "batch") =>
                 /\ inflight[1] = {}
                 /\ dPc'[1] = IF fi'[1] < Len(marketplaceIDs) THEN "cooldown" ELSE "done"
          /\ (dPc[1] # "probe" /\ dPc'[1] = "probe") => dPc[1] = "cooldown"]_vars

\* A wave of two concurrent fetches has settled and the cooldown before the
\* last wave is under way.
C18_Witness ==
    /\ dPc[1] = "cooldown"
    /\ Len(marketplaceIDs) = 3
    /\ fi[1] = 2 /\ batchSize[1] = 2 /\ launched = 2
    /\ inflight[1] = {}

-----------------------------------------------------------------------------
(* Claims about main (Spec) *)

Returned(v) == mPc[v] = "returned"

\* C8: when exactly one of the two paths of an invocation failed, main returns
\* the two flags as they are, and none of the results this invocation appended
\* comes from the path that failed.
C8_FailedAdapterContributesNothing ==
    \A v \in Invs :
        (Returned(v) /\ result[v].kind = "object"
                     /\ discogsSuccess[v] # bandcampSuccess[v]) =>
            /\ result[v].discogsSuccess = discogsSuccess[v]
            /\ result[v].bandcampSuccess = bandcampSuccess[v]
            /\ \A k \in 1..Len(result[v].results) :
                   result[v].results[k].by = v =>
                       result[v].results[k].src =
                           (IF discogsSuccess[v] THEN "discogs" ELSE "bandcamp")

\* C9: the results an invocation returns hold only listings that this
\* invocation appended, fetched for identifiers that this invocation collected.
C9_IsolatedAccumulators ==
    \A v \in Invs :
        (Returned(v) /\ result[v].kind = "object") =>
            \A k \in 1..Len(result[v].results) :
                /\ result[v].results[k].by = v
                /\ result[v].results[k].idBy = v

\* C10: every invocation of main that returns, returns an object with a
\* results list and the two success flags.
C10_AlwaysResultObject ==
    \A v \in Invs : Returned(v) => result[v].kind = "object"

\* Every fetch of invocation v has settled and both its tasks have ended.
AllSettled(v) ==
    /\ dPc[v] = "done" /\ bPc[v] = "done"
    /\ inflight[v] = {} /\ albums[v] = {}

\* C14: the result is assembled (sort, dedupe, trim, return) only once both
\* tasks of the invocation have ended with none of their fetches in flight: a
\* task ends only with no fetch of its own pending, and once main has returned
\* no fetch of that invocation appends a listing.
C14_ResultAfterBothSettled ==
    /\ [](\A v \in Invs :
            /\ (dPc[v] = "done" => inflight[v] = {})
            /\ (bPc[v] = "done" => albums[v] = {})
            /\ (Returned(v) /\ result[v].kind = "object") => AllSettled(v))
    /\ [][\A v \in Invs : Returned(v) =>
             \A k \in 1..Len(listingData') :
                 listingData'[k].by = v => listingData'[k] \in EntriesOf(listingData)]_vars

\* An invocation whose two adapters both fetched a listing has returned them.
C14_Witness ==
    /\ Returned(1)
    /\ Len(result[1].results) = 2
    /\ \E j, k \in 1..2 : /\ result[1].results[j].src = "discogs"
                          /\ result[1].results[k].src = "bandcamp"

\* The want list at hand was assigned by an invocation before v (or never):
\* once v is past its fetchWantlist, that fetch has failed.
WantlistFetchFailed(v) == wantList.by < v

\* C20: in every invocation, a later one included, a failed want-list fetch
\* makes the Discogs path fail: the result carries discogsSuccess = false, and
\* the invocation has collected no marketplace identifier and appended no
\* Discogs listing (they could only come from an earlier want list).
C20_FailedWantlistFailsDiscogs ==
    \A v \in Invs :
        (Returned(v) /\ result[v].kind = "object" /\ WantlistFetchFailed(v)) =>
            /\ ~result[v].discogsSuccess
            /\ \A k \in 1..Len(marketplaceIDs) : marketplaceIDs[k].by # v
            /\ \A k \in 1..Len(listingData) :
                   listingData[k].by = v => listingData[k].src = "bandcamp"

-----------------------------------------------------------------------------
(* Claims about the progress events of one run (SpecRun) *)

\* The percent values of the events that carry one, in emission order.
Percents == SelectSeq(events, LAMBDA e : e.kind = "progress")

\* C11: every progress event carrying a percentage that is emitted during a
\* run has its percent in 0..100.
C11_PercentInRange ==
    \A k \in 1..Len(Percents) : Percents[k].percent \in 0..100

\* C12: within a run the percent values of the progress events never decrease
\* in emission order.
C12_PercentNonDecreasing ==
    \A j, k \in 1..Len(Percents) : j < k => Percents[j].percent <= Percents[k].percent

\* No fetch of invocation v is pending and none of its tasks has started.
NoNetworkActivity(v) ==
    /\ dPc[v] = "idle" /\ bPc[v] = "idle"
    /\ inflight[v] = {} /\ albums[v] = {}

\* C13: when DGS_USERNAME or TIMER_LIMIT is absent, main issues no network
\* call, emits no progress event and leaves every accumulator as it was.
C13_NoRunWithoutConfiguration ==
    ~envOK =>
        /\ \A v \in Invs : NoNetworkActivity(v)
        /\ events = <<>>
        /\ completedSteps = 0
        /\ AccumulatorsInit

\* main was called without the environment variables and has returned.
C13_Witness ==
    /\ ~envOK
    /\ Returned(1)

\* C16: when the remote fails every request of a wave's probe, the Discogs
\* path is aborted: discogsSuccess is false, discogsTasks has ended and no
\* batch fetch is in flight then or ever after, and the step that aborts it
\* leaves bandcampSuccess, the position of bandcampTasks, its pending album
\* fetches and the listings untouched.
C16_ProbeFailureAbortsDiscogsOnly ==
    /\ [](probeFailed =>
            /\ ~discogsSuccess[1]
            /\ dPc[1] = "done"
            /\ inflight[1] = {})
    /\ [][(probeFailed' /\ ~probeFailed) =>
             /\ UNCHANGED <<bandcampSuccess, bPc, albums, listingData>>
             /\ UNCHANGED <<events, completedSteps>>]_vars

\* The probe of the second wave failed; the run has returned the listing of
\* the first wave and a Bandcamp listing, with bandcampSuccess still true.
C16_Witness ==
    /\ probeFailed
    /\ Returned(1)
    /\ ~result[1].discogsSuccess /\ result[1].bandcampSuccess
    /\ Len(result[1].results) = 2
    /\ \E j, k \in 1..2 : /\ result[1].results[j].src = "discogs"
                          /\ result[1].results[k].src = "bandcamp"

\* The identifiers the sale pages ps of the releases rels hold, a failed
\* fetch counting for none, in release order then page order.
RECURSIVE IdentifiersOf(_, _)
IdentifiersOf(ps, rels) ==
    IF ps = <<>> THEN <<>>
    ELSE LET k == Len(ps)
         IN  IdentifiersOf(SubSeq(ps, 1, k - 1), rels)
             \o (IF ps[k].ok THEN [j \in 1..ps[k].n |-> [rel |-> rels[k].rel, n |-> j, by |-> 1]]
                 ELSE <<>>)

\* The progress events of collectMarketplaceIDs, in emission order.
MarketplaceEvents ==
    SelectSeq(events, LAMBDA e : e.kind = "progress" /\ e.message = "Collecting marketplace IDs")

\* C19: in collectMarketplaceIDs a release whose sale-page fetch failed
\* contributes no identifier and stops nothing: marketplaceIDs holds exactly
\* the identifiers of the pages fetched so far that succeeded, in release order
\* then page order, one progress event was sent per release handled, failed or
\* not, and the collector goes on until every release was handled.
C19_PageFailureIsIsolated ==
    (envOK /\ mPc[1] = "tasks") =>
        /\ marketplaceIDs = IdentifiersOf(pages, releaseIDs)
        /\ Len(MarketplaceEvents) = Len(pages)
        /\ \A k \in 1..Len(pages) : MarketplaceEvents[k].percent \in 40..60
        /\ dPc[1] = "collectMarketplaceIDs" =>
               (Len(pages) = ci[1] /\ ci[1] < Len(releaseIDs))
        /\ (dPc[1] \in {"probe", "batch", "cooldown", "done"} /\ wantList.kind = "array") =>
               Len(pages) = Len(releaseIDs)

\* Two releases: the first one's page fetch failed, the second one's page gave
\* two identifiers, and the collector has finished.
C19_Witness ==
    /\ mPc[1] = "tasks" /\ dPc[1] = "probe"
    /\ pages = <<[ok |-> FALSE, n |-> 0], [ok |-> TRUE, n |-> 2]>>
    /\ Len(marketplaceIDs) = 2
    /\ marketplaceIDs[1].rel = 2 /\ marketplaceIDs[2].rel = 2
    /\ Len(MarketplaceEvents) = 2

-----------------------------------------------------------------------------
(* Specifications *)

RetryIdle ==
    /\ remote = [k \in 1..(MaxRetries + 1) |-> "ok"]
    /\ retries = 0
    /\ attempt = 0
    /\ requests = 0
    /\ rState = "undefined"
    /\ rError = "none"

\* fetchWithRetry on its own
InitRetry ==
    /\ AccumulatorsInit /\ InvocationsInit /\ envOK = TRUE /\ ObsIdle /\ calls = <<>>
    /\ RetryInit
SpecRetry == InitRetry /\ [][RetryNext]_vars

\* the merge & rank functions on every bounded accumulator content
InitRank ==
    /\ releaseIDs = <<>> /\ marketplaceIDs = <<>> /\ wantList = Null
    /\ InvocationsInit /\ envOK = TRUE /\ ObsIdle /\ RetryIdle
    /\ RankInit
SpecRank == InitRank /\ [][RankNext]_vars

\* one run of fetchMarketplaceListingData
InitBatch == BatchInit /\ RetryIdle /\ calls = <<>>
SpecBatch == InitBatch /\ [][BatchNext]_vars

\* the same run on an event loop that keeps running: a response that has
\* arrived is handled, a promise that has settled is continued, a timer that
\* has expired fires
SpecBatchLive ==
    /\ InitBatch /\ [][BatchNext]_vars
    /\ WF_vars(ObservedProbe /\ UNCHANGED <<calls, retryVars>>)
    /\ WF_vars(ObservedItem /\ UNCHANGED <<calls, retryVars>>)
    /\ WF_vars(WaveEnd(1) /\ Unobserved)
    /\ WF_vars(Cooldown(1) /\ Unobserved)

\* the server: MaxInv invocations of main, in any interleaving
Init ==
    /\ AccumulatorsInit /\ InvocationsInit /\ ObsIdle /\ RetryIdle /\ calls = <<>>
    /\ envOK \in BOOLEAN
Spec == Init /\ [][Next]_vars

\* one invocation of main, its events observed
SpecRun == Init /\ [][RunNext]_vars

\* the same on want lists of up to MaxReleases releases
SpecProgress == Init /\ [][ProgressNext]_vars

\* discogsTasks of one invocation, its events observed
InitDiscogs == DiscogsInit /\ RetryIdle /\ calls = <<>>
SpecDiscogs == InitDiscogs /\ [][DiscogsNext]_vars

====
